---- MODULE Spec2Model ----
(***************************************************************************)
(* Streaming session engine of ClarifAI (frontend hooks).                  *)
(*                                                                         *)
(*   useConceptFlag    (src/frontend/src/hooks/useConceptFlag.ts, 1-254)   *)
(*   useDeepgramAudio  (src/frontend/src/hooks/useDeepgramAudio.js)        *)
(*   AudioRecorder     (src/frontend/src/components/AudioRecorder.jsx)     *)
(*                                                                         *)
(* Every browser task (a WebSocket event, a timer callback, a React render *)
(* commit, a passive-effect flush, a call of an exported function) is one  *)
(* action.  The JavaScript event loop runs tasks one at a time, so the     *)
(* actions interleave but never overlap.                                   *)
(***************************************************************************)
EXTENDS Integers, Sequences, FiniteSets, TLC

\* ------------------------------------------------------------------ bounds
MaxSockets == 2        \* WebSocket objects of one hook instance alive at the same time
MaxObservedSockets == 1 \* the same, while single tasks are observed
MaxAttemptArg == 20    \* largest attempt number given to the backoff formula
MaxRecorders == 1      \* MediaRecorder objects alive at the same time
MaxInFlight == 1       \* FileReader reads in flight
MaxHistory == 1        \* utterances heard
MaxPartials == 1       \* partial transcript messages of one utterance
MaxFrames == 2         \* audio frames the recorder component hands to arrayBuffer()

\* ------------------------------------------------------- program constants
maxReconnectAttempts == 5
BaseDelay == 1000
MaxDelay == 30000

Null == 0              \* null
Dead == -1             \* some WebSocket object that is CLOSING or CLOSED
Stale == -1            \* the id of a timer that has fired or was cleared
Sockets == 1..MaxSockets
Concepts == {"Photosynthesis", "Entropy"}
Recorders == 1..MaxRecorders
DeadRec == -1          \* some MediaRecorder object that is inactive for good

\* ---------------------------------------------------------------- state
VARIABLES
    \* useConceptFlag
    mounted,               \* the component using the hook is mounted
    webSocket,             \* useState webSocket: the value last set
    renderedWs,            \* webSocket as captured by the closures of the latest render
    renderPending,         \* setWebSocket was called since the latest render
    effectPending,         \* the effect of the latest render has not been flushed yet
    cleanupWs,             \* webSocket captured by the cleanup of the effect that ran last
    isConnected,
    isLoading,
    reconnectTimeoutRef,   \* Null, or the id of a reconnect timer: the socket whose onclose armed it
    reconnectAttemptsRef,
    authToken,             \* localStorage holds a token
    readyState,            \* socket -> "NONE" (free slot) | CONNECTING | OPEN | CLOSING | CLOSED
    closureWs,             \* socket -> webSocket captured by the connectWebSocket that created it
    opened,                \* sockets whose open event has fired
    connTimer,             \* sockets whose connection timeout is armed
    reconnTimer,           \* sockets whose onclose armed a reconnect timer that is still armed
    watch,                 \* which scenario is explored and what of it is recorded
    \* what the latest task did
    lastOp,                \* the task that ran last
    lastArg,               \* its input: [s: socket, frame: inbound frame, concept: payload]
    cbs,                   \* the callbacks it invoked, in order
    sent,                  \* the messages it put on the wire, in order
    preLoading,            \* isLoading when it started
    preOpen,               \* "the socket of the latest render is OPEN" when it started
    \* history
    openedOnce,            \* an open event has fired
    schedCount,            \* reconnect timers armed since the last open event (counted up to 6)
    lastDelay,             \* delay of the reconnect timer armed last (0: none)
    nFatal,                \* reports of the fatal error (counted up to 2)
    createdAfterTeardown   \* a WebSocket was constructed after the unmount cleanup

VARIABLES
    \* useDeepgramAudio (hooks/useDeepgramAudio.js) and its consumer AudioRecorder
    dgMounted,             \* the component using the hook is mounted
    isRecording,
    dgIsConnected,         \* useState isConnected of useDeepgramAudio
    error,                 \* "" is null
    sessionId,             \* "" is null
    transcript,
    concepts,
    currentConcept,        \* "" is null
    isConnecting,
    rIsConnecting,         \* isConnecting as captured by the connect of the latest render
    rIsRecording,          \* isRecording as captured by the startRecording of the latest render
    socketRef,
    connectionTimeoutRef,  \* Null, Stale, or the socket whose connection timeout is armed
    recentAction,          \* Date.now() - lastActionTimeRef.current < DEBOUNCE_TIME
    mediaRecorderRef,
    streamRef,
    dgReady,               \* socket -> readyState, "NONE" for a free slot
    dgOpened,              \* sockets whose open event has fired
    recState,              \* recorder -> "NONE" (free slot) | "recording" | "inactive"
    pendingFinal,          \* stopped recorders whose last dataavailable event is still to come
    tracksLive,            \* recorders whose microphone stream has live tracks
    startPc,               \* where the pending startRecording call is suspended, or "idle"
    startSock,             \* the socket whose connect() promise it awaits
    startConnecting,       \* isConnecting as captured by the connect it was created with
    readers,               \* FileReader reads in flight, in capture order
    transcriptHistory,     \* AudioRecorder: useState transcriptHistory
    conceptList,           \* AudioRecorder: useState conceptList
    utterances,            \* the utterances heard while mounted
    dgLastOp,              \* the task that ran last
    dgSent,                \* the messages it put on the wire, in order
    closedArmed            \* it closed the socket from disconnect() with the capture armed

audioVars == <<dgMounted, isRecording, dgIsConnected, error, sessionId, transcript, concepts,
               currentConcept, isConnecting, rIsConnecting, rIsRecording, socketRef,
               connectionTimeoutRef, recentAction, mediaRecorderRef, streamRef, dgReady,
               dgOpened, recState, pendingFinal, tracksLive, startPc, startSock,
               startConnecting, readers, transcriptHistory, conceptList, utterances, dgLastOp,
               dgSent, closedArmed>>

flagVars == <<mounted, webSocket, renderedWs, renderPending, effectPending, cleanupWs,
              isConnected, isLoading, reconnectTimeoutRef, reconnectAttemptsRef, authToken,
              readyState, closureWs, opened, connTimer, reconnTimer>>
flagObs == <<watch, lastOp, lastArg, cbs, sent, preLoading, preOpen, openedOnce, schedCount, lastDelay,
             nFatal,             createdAfterTeardown>>

\* the backoff formula applied to two attempt numbers
VARIABLES
    attempt,               \* an attempt number
    earlier,               \* another attempt number
    computed,              \* the delays below have been computed
    delay,                 \* the delay of attempt
    earlierDelay           \* the delay of earlier

backoffVars == <<attempt, earlier, computed, delay, earlierDelay>>

\* AudioToTextRecorder.tsx, the recorder component of the dashboard
VARIABLES
    recording,             \* useState recording
    shownTranscript,       \* useState transcript: the pieces appended to it, in order
    wsRef,
    recorderRef,           \* mediaRecorderRef
    startPending,          \* a startRecording call awaits getUserMedia
    startRejected,         \* the latest startRecording call ended by throwing (its promise rejected)
    wsState,               \* socket -> readyState, "NONE" for a free slot
    recOf,                 \* socket -> state of the recorder its onopen created, or "NONE"
    lastBlob,              \* stopped recorders whose last dataavailable event is still to come
    buffers,               \* arrayBuffer() conversions in flight, in capture order
    captured,              \* the frames handed to arrayBuffer() so far
    sendLog                \* the ws.send(buffer) calls made so far, in order

componentVars == <<recording, shownTranscript, wsRef, recorderRef, startPending, startRejected, wsState, recOf,
                   lastBlob, buffers, captured, sendLog>>

vars == <<flagVars, flagObs, audioVars, backoffVars, componentVars>>

\* a step that leaves one of the three parts alone
FlagUnused == UNCHANGED <<flagVars, flagObs>>
AudioUnused == UNCHANGED audioVars
BackoffUnused == UNCHANGED backoffVars
ComponentUnused == UNCHANGED componentVars
OthersUnused == AudioUnused /\ BackoffUnused /\ ComponentUnused
FlagIdle == FlagUnused /\ BackoffUnused /\ ComponentUnused
HooksIdle == FlagUnused /\ AudioUnused /\ BackoffUnused

\* ------------------------------------------------------ Backoff Scheduler
RECURSIVE Pow2(_)
Pow2(n) == IF n = 0 THEN 1 ELSE 2 * Pow2(n - 1)

Min(a, b) == IF a < b THEN a ELSE b

\* the delay without its ceiling
NextDelayUncapped(n) == BaseDelay * Pow2(n)
\* Math.min(1000 * Math.pow(2, attempt), 30000)
NextDelay(n) == Min(BaseDelay * Pow2(n), MaxDelay)

\* the formula is not in use
BackoffIdle ==
    /\ attempt = 0
    /\ earlier = 0
    /\ computed = FALSE
    /\ delay = 0
    /\ earlierDelay = 0

\* two attempt numbers whose delays are to be computed
BackoffInit ==
    /\ attempt \in 0..MaxAttemptArg
    /\ earlier \in 0..MaxAttemptArg
    /\ computed = FALSE
    /\ delay = 0
    /\ earlierDelay = 0

\* the timeout computation of ws.onclose for both attempt numbers
ComputeDelays ==
    /\ ~computed
    /\ computed' = TRUE
    /\ delay' = NextDelay(attempt)
    /\ earlierDelay' = NextDelay(earlier)
    /\ UNCHANGED <<attempt, earlier>>

\* ------------------------------------------------------------ Message Codec
\* Inbound text frames.  valid = FALSE is a frame JSON.parse rejects.
NoFrame == [valid |-> FALSE, status |-> "none", message |-> "", explanation |-> ""]
BadFrame == [valid |-> FALSE, status |-> "", message |-> "", explanation |-> ""]
ErrorFrame(m) == [valid |-> TRUE, status |-> "error", message |-> m, explanation |-> ""]
ExplanationFrame(e) == [valid |-> TRUE, status |-> "success", message |-> "", explanation |-> e]
ErrorMessages == {"", "boom"}
Frames == {BadFrame} \cup {ErrorFrame(m) : m \in ErrorMessages} \cup {ExplanationFrame("E1")}

\* JSON.parse(event.data): the parsed message, or the thrown SyntaxError
JsonParse(frame) ==
    IF frame.valid THEN [ok |-> TRUE, msg |-> frame]
                   ELSE [ok |-> FALSE, msg |-> NoFrame]

\* the message as received
ErrorTextVerbatim(m) == m

\* msg.message || "Unknown error"
ErrorText(m) == IF m = "" THEN "Unknown error" ELSE m

\* callback invocations, as <<callback, argument>>
CbNotConnected == <<"onError", "WebSocket not connected">>
CbTimeout == <<"onError", "WebSocket connection timed out - server may be unreachable">>
CbConnError == <<"onError", "WebSocket connection error - check developer console for details">>
CbFatal == <<"onError", "Could not establish WebSocket connection after multiple attempts">>
CbParseError == <<"onError", "SyntaxError">>
CbServerError(m) == <<"onError", ErrorText(m)>>
CbExplanation(e) == <<"onExplanation", e>>

\* the callbacks ws.onmessage invokes for a frame
OnMessageCallbacks(frame) ==
    LET p == JsonParse(frame) IN
    IF ~p.ok THEN <<CbParseError>>
    ELSE IF p.msg.status = "error" THEN <<CbServerError(p.msg.message)>>
    ELSE <<CbExplanation(p.msg.explanation)>>

\* ---------------------------------------------------------- useConceptFlag
Arg(s, f, c) == [s |-> s, frame |-> f, concept |-> c]
NoArg == Arg(Null, NoFrame, "")

\* WebSocket.close(): CONNECTING or OPEN becomes CLOSING, otherwise nothing
Close(rs, ws) ==
    IF ws \in Sockets /\ rs[ws] \in {"CONNECTING", "OPEN"}
    THEN [rs EXCEPT ![ws] = "CLOSING"] ELSE rs

\* if (reconnectTimeoutRef.current) window.clearTimeout(reconnectTimeoutRef.current)
ClearReconnect(timers, ref) == IF ref # Null THEN timers \ {ref} ELSE timers

\* ws.readyState === WebSocket.OPEN of a socket reference
IsOpen(ws) == ws \in Sockets /\ readyState[ws] = "OPEN"

\* flagConcept without the readyState test
CanSendNoStateTest(ws) == ws # Null

\* !webSocket || webSocket.readyState !== WebSocket.OPEN, negated
CanSend(ws) == ws # Null /\ IsOpen(ws)

\* a state setter of an unmounted component changes nothing
SetState(new, old) == IF mounted THEN new ELSE old

\* the sockets that may be alive in the scenario explored
Slots == IF watch = "reconnects" THEN Sockets ELSE {s \in Sockets : s <= MaxObservedSockets}

\* the slots new WebSocket(wsUrl) may take, given the ready states and the
\* armed timers: the unused ones and those of sockets that are garbage
FreeSlots(rs, ct, rt) ==
    {s \in Slots : rs[s] = "NONE" \/ (rs[s] = "CLOSED" /\ s \notin ct /\ s \notin rt)}
FreeSlot(rs, ct, rt) ==
    CHOOSE s \in FreeSlots(rs, ct, rt) : \A t \in FreeSlots(rs, ct, rt) : s <= t

\* The next values of the sockets, the timers and every reference to a socket
\* or a timer.  A socket that is CLOSED with no timer left can do nothing any
\* more: it is garbage and its slot is freed.  close() and the readyState test
\* of flagConcept treat every socket that is CLOSING or CLOSED alike, so a
\* reference to one is kept as Dead; the id of a timer that is no longer
\* armed is kept as Stale.
Commit(rs, op, ct, rt, ws, rws, cws, clo, ref) ==
    LET dead == {s \in Sockets : rs[s] = "CLOSED" /\ s \notin ct /\ s \notin rt}
        R(x) == IF x \in Sockets /\ rs[x] \notin {"CONNECTING", "OPEN"} THEN Dead ELSE x
    IN
    /\ readyState' = [s \in Sockets |-> IF s \in dead THEN "NONE" ELSE rs[s]]
    /\ opened' = op \ dead
    /\ connTimer' = ct
    /\ reconnTimer' = rt
    /\ webSocket' = R(ws)
    /\ renderedWs' = R(rws)
    /\ cleanupWs' = R(cws)
    /\ closureWs' = [s \in Sockets |-> IF s \in dead \/ rs[s] = "NONE" THEN Null ELSE R(clo[s])]
    /\ reconnectTimeoutRef' = IF ref \in Sockets /\ ref \notin rt THEN Stale ELSE ref

\* the tasks whose name and argument are put on record
WatchedOps == {"flagConcept", "message"}

Obs(op, arg, callbacks, wire) ==
    /\ watch' = watch
    /\ IF watch = "tasks"
       THEN /\ lastOp' = IF op \in WatchedOps THEN op ELSE "other"
            /\ lastArg' = IF op \in WatchedOps THEN arg ELSE NoArg
            /\ cbs' = callbacks
            /\ sent' = wire
            /\ preLoading' = isLoading
            /\ preOpen' = IsOpen(renderedWs)
       ELSE UNCHANGED <<lastOp, lastArg, cbs, sent, preLoading, preOpen>>

\* the history of the reconnect policy, recorded when watch = "reconnects"
Hist(oo, sc, ld, nf) ==
    IF watch = "reconnects"
    THEN openedOnce' = oo /\ schedCount' = sc /\ lastDelay' = ld /\ nFatal' = nf
    ELSE UNCHANGED <<openedOnce, schedCount, lastDelay, nFatal>>

FlagInit ==
    /\ watch \in {"tasks", "reconnects", "audio", "transcripts", "connects", "frames",
                "backoff"}
    /\ mounted = TRUE
    /\ webSocket = Null
    /\ renderedWs = Null
    /\ renderPending = FALSE
    /\ effectPending = TRUE
    /\ cleanupWs = Null
    /\ isConnected = FALSE
    /\ isLoading = FALSE
    /\ reconnectTimeoutRef = Null
    /\ reconnectAttemptsRef = 0
    /\ authToken \in BOOLEAN
    /\ readyState = [s \in Sockets |-> "NONE"]
    /\ closureWs = [s \in Sockets |-> Null]
    /\ opened = {}
    /\ connTimer = {}
    /\ reconnTimer = {}
    /\ lastOp = "init"
    /\ lastArg = NoArg
    /\ cbs = <<>>
    /\ sent = <<>>
    /\ preLoading = FALSE
    /\ preOpen = FALSE
    /\ openedOnce = FALSE
    /\ schedCount = 0
    /\ lastDelay = 0
    /\ nFatal = 0
    /\ createdAfterTeardown = FALSE

\* connectWebSocket of a render whose webSocket was cw, on the ready states
\* rs: closes cw, constructs a socket n, arms its connection timeout, stores
\* it with setWebSocket
ConnectWebSocket(cw, rs, rt, cws, ref) ==
    LET n == FreeSlot(rs, connTimer, rt) IN
    /\ FreeSlots(rs, connTimer, rt) # {}
    /\ Commit([Close(rs, cw) EXCEPT ![n] = "CONNECTING"], opened \ {n}, connTimer \cup {n}, rt,
              SetState(n, webSocket), renderedWs, cws,
              [closureWs EXCEPT ![n] = cw], ref)
    /\ renderPending' = SetState(TRUE, renderPending)
    /\ createdAfterTeardown' = (createdAfterTeardown \/ ~mounted)

\* React flushes the effect of the latest render: the cleanup of the effect
\* that ran before (a no-op before the first effect: cleanupWs and
\* reconnectTimeoutRef are Null), then connectWebSocket()
RunEffect ==
    /\ mounted
    /\ effectPending
    /\ effectPending' = FALSE
    /\ ConnectWebSocket(renderedWs, Close(readyState, cleanupWs),
                        ClearReconnect(reconnTimer, reconnectTimeoutRef),
                        renderedWs, reconnectTimeoutRef)
    /\ Obs("runEffect", NoArg, <<>>, <<>>)
    /\ UNCHANGED <<mounted, isConnected, isLoading, reconnectAttemptsRef, authToken,
                   openedOnce, schedCount, lastDelay, nFatal>>

\* React re-renders after setWebSocket: connectWebSocket and flagConcept are
\* re-created ([.., webSocket] changed) and the effect is queued again
Render ==
    /\ mounted
    /\ renderPending
    /\ ~effectPending
    /\ renderPending' = FALSE
    /\ effectPending' = TRUE
    /\ Commit(readyState, opened, connTimer, reconnTimer, webSocket, webSocket, cleanupWs,
              closureWs, reconnectTimeoutRef)
    /\ Obs("render", NoArg, <<>>, <<>>)
    /\ UNCHANGED <<mounted, isConnected, isLoading, reconnectAttemptsRef, authToken,
                   openedOnce, schedCount, lastDelay, nFatal, createdAfterTeardown>>

\* the component unmounts: the cleanup of the effect that ran last
Unmount ==
    /\ mounted
    /\ ~effectPending
    /\ mounted' = FALSE
    /\ Commit(Close(readyState, cleanupWs), opened, connTimer,
              ClearReconnect(reconnTimer, reconnectTimeoutRef),
              webSocket, renderedWs, cleanupWs, closureWs, reconnectTimeoutRef)
    /\ Obs("unmount", NoArg, <<>>, <<>>)
    /\ UNCHANGED <<renderPending, effectPending, isConnected, isLoading,
                   reconnectAttemptsRef, authToken, openedOnce, schedCount, lastDelay, nFatal,
                   createdAfterTeardown>>

\* the open event of socket s: ws.onopen
SocketOpen(s) ==
    /\ readyState[s] = "CONNECTING"
    /\ isConnected' = SetState(TRUE, isConnected)
    /\ reconnectAttemptsRef' = 0
    /\ Commit([readyState EXCEPT ![s] = "OPEN"], opened \cup {s}, connTimer \ {s},
              ClearReconnect(reconnTimer, reconnectTimeoutRef),
              webSocket, renderedWs, cleanupWs, closureWs, Null)
    /\ Obs("open", Arg(s, NoFrame, ""), <<>>, IF authToken THEN <<"auth">> ELSE <<>>)
    /\ Hist(TRUE, 0, lastDelay, nFatal)
    /\ UNCHANGED <<mounted, renderPending, effectPending, isLoading, authToken,
                   createdAfterTeardown>>

\* the connection of socket s ends (it failed, the peer or the network closed
\* it, or the closing handshake finished): the error event when the
\* connection failed, then the close event: ws.onerror, ws.onclose
SocketClose(s, abnormal) ==
    LET failed == s \notin opened \/ abnormal
        retry == reconnectAttemptsRef < maxReconnectAttempts
    IN
    /\ readyState[s] \in {"CONNECTING", "OPEN", "CLOSING"}
    /\ s \notin opened => abnormal
    /\ isConnected' = SetState(FALSE, isConnected)
    /\ Commit([readyState EXCEPT ![s] = "CLOSED"], opened, connTimer,
              IF retry THEN reconnTimer \cup {s} ELSE reconnTimer,
              webSocket, renderedWs, cleanupWs, closureWs,
              IF retry THEN s ELSE reconnectTimeoutRef)
    /\ IF retry
       THEN Hist(openedOnce, Min(schedCount + 1, 6), NextDelay(reconnectAttemptsRef), nFatal)
       ELSE Hist(openedOnce, schedCount, lastDelay, Min(nFatal + 1, 2))
    /\ Obs("close", Arg(s, NoFrame, ""),
           (IF failed THEN <<CbConnError>> ELSE <<>>) \o (IF retry THEN <<>> ELSE <<CbFatal>>),
           <<>>)
    /\ UNCHANGED <<mounted, renderPending, effectPending, isLoading, reconnectAttemptsRef,
                   authToken, createdAfterTeardown>>

\* the reconnect timer armed by the onclose of socket s fires
ReconnectTimerFires(s) ==
    /\ s \in reconnTimer
    /\ reconnectAttemptsRef' = reconnectAttemptsRef + 1
    /\ ConnectWebSocket(closureWs[s], readyState, reconnTimer \ {s}, cleanupWs,
                        reconnectTimeoutRef)
    /\ Obs("reconnectTimer", Arg(s, NoFrame, ""), <<>>, <<>>)
    /\ UNCHANGED <<mounted, effectPending, isConnected, isLoading, authToken, openedOnce, schedCount,
                   lastDelay, nFatal>>

\* the 5 s connection timeout of socket s fires
ConnectionTimeoutFires(s) ==
    /\ s \in connTimer
    /\ Commit(IF readyState[s] # "OPEN" THEN Close(readyState, s) ELSE readyState,
              opened, connTimer \ {s}, reconnTimer, webSocket, renderedWs, cleanupWs,
              closureWs, reconnectTimeoutRef)
    /\ Obs("connTimeout", Arg(s, NoFrame, ""),
           IF readyState[s] # "OPEN" THEN <<CbTimeout>> ELSE <<>>, <<>>)
    /\ UNCHANGED <<mounted, renderPending, effectPending, isConnected, isLoading,
                   reconnectAttemptsRef, authToken, openedOnce, schedCount, lastDelay, nFatal,
                   createdAfterTeardown>>

\* a text frame arrives on socket s: ws.onmessage
ServerMessage(s, frame) ==
    /\ readyState[s] = "OPEN"
    /\ isLoading' = SetState(FALSE, isLoading)
    /\ Obs("message", Arg(s, frame, ""), OnMessageCallbacks(frame), <<>>)
    /\ UNCHANGED <<mounted, webSocket, renderedWs, renderPending, effectPending, cleanupWs,
                   isConnected, reconnectTimeoutRef, reconnectAttemptsRef, authToken,
                   readyState, closureWs, opened, connTimer, reconnTimer, openedOnce, schedCount,
                   lastDelay, nFatal, createdAfterTeardown>>

\* the consumer calls the flagConcept of the latest render
FlagConcept(c) ==
    /\ mounted
    /\ IF ~CanSend(renderedWs)
       THEN /\ Obs("flagConcept", Arg(renderedWs, NoFrame, c), <<CbNotConnected>>, <<>>)
            /\ UNCHANGED isLoading
       ELSE /\ isLoading' = TRUE
            /\ Obs("flagConcept", Arg(renderedWs, NoFrame, c), <<>>, <<c>>)
    /\ UNCHANGED <<mounted, webSocket, renderedWs, renderPending, effectPending, cleanupWs,
                   isConnected, reconnectTimeoutRef, reconnectAttemptsRef, authToken,
                   readyState, closureWs, opened, connTimer, reconnTimer, openedOnce, schedCount,
                   lastDelay, nFatal, createdAfterTeardown>>

NextFlag ==
    \/ RunEffect /\ OthersUnused
    \/ Render /\ OthersUnused
    \/ Unmount /\ OthersUnused
    \/ \E s \in Sockets : SocketOpen(s) /\ OthersUnused
    \/ \E s \in Sockets, abnormal \in BOOLEAN : SocketClose(s, abnormal) /\ OthersUnused
    \/ \E s \in Sockets : ReconnectTimerFires(s) /\ OthersUnused
    \/ \E s \in Sockets : ConnectionTimeoutFires(s) /\ OthersUnused
    \/ \E s \in Sockets, frame \in Frames : ServerMessage(s, frame) /\ OthersUnused
    \/ \E c \in Concepts : FlagConcept(c) /\ OthersUnused


\* -------------------------------------------------------- useDeepgramAudio
\* Inbound text frames of the audio endpoint.  valid = FALSE is a frame
\* JSON.parse rejects; hasTranscript is data.transcript !== undefined;
\* hasConcepts is data.concepts && Array.isArray(data.concepts).
DgFrame(st, sid, ht, txt, fin, full, hc, cur, msg) ==
    [valid |-> TRUE, status |-> st, session_id |-> sid, hasTranscript |-> ht,
     transcript |-> txt, is_final |-> fin, full_transcript |-> full,
     hasConcepts |-> hc, current_concept |-> cur, message |-> msg]
DgBadFrame == [DgFrame("", "", FALSE, "", FALSE, "", FALSE, "", "") EXCEPT !.valid = FALSE]
Texts == {"", "hello"}
DgFrames ==
    {DgBadFrame,
     DgFrame("connected", "S1", FALSE, "", FALSE, "", FALSE, "", ""),
     DgFrame("", "", FALSE, "", FALSE, "", TRUE, "c1", ""),
     DgFrame("error", "", FALSE, "", FALSE, "", FALSE, "", "boom")}
    \cup {DgFrame("", "", TRUE, t, FALSE, "", FALSE, "", "") : t \in Texts}
    \cup {DgFrame("", "", TRUE, t, TRUE, f, FALSE, "", "") : t \in Texts, f \in {"", "hello world"}}

\* the frames without transcript or concept content
ControlFrames == {f \in DgFrames : ~f.hasTranscript /\ ~f.hasConcepts}
\* the frames the server sends in the scenario explored
ServerFrames == IF watch = "transcripts" THEN DgFrames ELSE ControlFrames

ErrConnection == "WebSocket connection error"
ErrTimeout == "WebSocket connection timeout"
ErrNoConnection == "Could not establish WebSocket connection"
ErrNotReady == "WebSocket connection not ready"
ErrMicrophone == "Failed to access microphone"

\* onTranscript without the test of the text
AppendsEveryFinal(newTranscript, isFinal) == isFinal

\* AudioRecorder onTranscript: if (isFinal && newTranscript) append
AppendsToHistory(newTranscript, isFinal) == isFinal /\ newTranscript # ""

\* socketRef.current && socketRef.current.readyState === WebSocket.OPEN
DgIsOpen(ref) == ref \in Sockets /\ dgReady[ref] = "OPEN"

\* ondataavailable without the test of the socket
ForwardsEveryFrame(nonEmpty, ref) == nonEmpty

\* ondataavailable: the test that lets a captured blob be read and sent
ForwardsFrame(nonEmpty, ref) == nonEmpty /\ DgIsOpen(ref)

\* The utterances heard while mounted, after a transcript message: a partial
\* message opens an utterance or adds to the open one, a final message
\* completes it with its text.
Heard(utts, text, final) ==
    LET last == Len(utts)
        open == last > 0 /\ ~utts[last].final
        before == IF open THEN utts[last].partials ELSE 0
        u == [text |-> IF final THEN text ELSE "", final |-> final,
              partials |-> IF final THEN before ELSE before + 1]
    IN IF open THEN [utts EXCEPT ![last] = u] ELSE Append(utts, u)

\* the transcript messages still to be handled within the bounds
WithinHistory(utts, final) ==
    LET last == Len(utts)
        open == last > 0 /\ ~utts[last].final
    IN /\ open \/ last < MaxHistory
       /\ ~final => (IF open THEN utts[last].partials ELSE 0) < MaxPartials

DgSet(new, old) == IF dgMounted THEN new ELSE old

\* the sockets that may be alive in the scenario explored
DgSlots == IF watch = "connects" THEN Sockets ELSE {s \in Sockets : s <= MaxObservedSockets}
DgHasFreeSlot == \E s \in DgSlots : dgReady[s] = "NONE"
DgFreeSlot == CHOOSE s \in DgSlots :
                  /\ dgReady[s] = "NONE"
                  /\ \A t \in DgSlots : t < s => dgReady[t] # "NONE"
RecHasFreeSlot == \E k \in Recorders : recState[k] = "NONE"
RecFreeSlot == CHOOSE k \in Recorders :
                   /\ recState[k] = "NONE"
                   /\ \A j \in Recorders : j < k => recState[j] # "NONE"

\* The next values of the sockets and of the references to them.  A CLOSED
\* socket whose connection timeout is not armed is garbage; a reference to a
\* CLOSING or CLOSED socket is kept as Dead.
AudioCommit(rs, op, sref, tref) ==
    LET dead == {s \in Sockets : rs[s] = "CLOSED" /\ tref # s} IN
    /\ dgReady' = [s \in Sockets |-> IF s \in dead THEN "NONE" ELSE rs[s]]
    /\ dgOpened' = op \ dead
    /\ socketRef' = IF sref \in Sockets /\ rs[sref] \notin {"CONNECTING", "OPEN"}
                    THEN Dead ELSE sref
    /\ connectionTimeoutRef' = tref

\* The next values of the recorders and of the references to them.  An
\* inactive recorder with no event to come and no live track is garbage; a
\* reference to an inactive recorder is kept as DeadRec.
RecCommit(rec, pf, tl, mref, sref) ==
    LET dead == {k \in Recorders : rec[k] = "inactive" /\ k \notin pf /\ k \notin tl} IN
    /\ recState' = [k \in Recorders |-> IF k \in dead THEN "NONE" ELSE rec[k]]
    /\ pendingFinal' = pf
    /\ tracksLive' = tl
    /\ mediaRecorderRef' = IF mref \in Recorders /\ rec[mref] # "recording"
                           THEN DeadRec ELSE mref
    /\ streamRef' = sref

\* an outbound message: its kind and, of an audio frame, whether the socket
\* was OPEN when the frame was captured
Wire(kind, open) == [kind |-> kind, open |-> open]

\* the tasks whose name is put on record
DgWatchedOps == IF watch = "connects" THEN {"connect"}
                ELSE {"dataAvailable", "disconnect", "stopRecording", "connTimeout"}

\* the capture is armed: a recorder is recording or a microphone track is live
CaptureArmed(rec, tl) == tl # {} \/ \E k \in Recorders : rec[k] = "recording"

\* the tasks that run disconnect()
TeardownOps == {"disconnect", "unmount"}

\* the messages the task sent and the task; disconnect() calls close() on the
\* socket, here one that is CONNECTING or OPEN, before it calls stopRecording()
DgObs(op, wire) ==
    /\ dgLastOp' = IF op \in DgWatchedOps THEN op ELSE "other"
    /\ dgSent' = wire
    /\ closedArmed' = (op \in TeardownOps /\ socketRef \in Sockets
                        /\ CaptureArmed(recState, tracksLive))

AudioInit ==
    /\ dgMounted = TRUE
    /\ isRecording = FALSE
    /\ dgIsConnected = FALSE
    /\ error = ""
    /\ sessionId = ""
    /\ transcript = ""
    /\ concepts = <<>>
    /\ currentConcept = ""
    /\ isConnecting = FALSE
    /\ rIsConnecting = FALSE
    /\ rIsRecording = FALSE
    /\ socketRef = Null
    /\ connectionTimeoutRef = Null
    /\ recentAction = FALSE
    /\ mediaRecorderRef = Null
    /\ streamRef = Null
    /\ dgReady = [s \in Sockets |-> "NONE"]
    /\ dgOpened = {}
    /\ recState = [k \in Recorders |-> "NONE"]
    /\ pendingFinal = {}
    /\ tracksLive = {}
    /\ startPc = "idle"
    /\ startSock = Null
    /\ startConnecting = FALSE
    /\ readers = <<>>
    /\ transcriptHistory = <<>>
    /\ conceptList = <<>>
    /\ utterances = <<>>
    /\ dgLastOp = "other"
    /\ dgSent = <<>>
    /\ closedArmed = FALSE

socketVars == <<dgReady, dgOpened, socketRef, connectionTimeoutRef>>
recorderVars == <<recState, pendingFinal, tracksLive, mediaRecorderRef, streamRef>>
messageVars == <<sessionId, transcript, concepts, currentConcept, transcriptHistory,
                 conceptList, utterances>>
startVars == <<startPc, startSock, startConnecting>>
renderVars == <<rIsConnecting, rIsRecording>>

\* connect() past its isConnecting test: clears the armed timeout, closes the
\* current socket, constructs a socket n, arms its timeout
ConnectBody ==
    LET n == DgFreeSlot IN
    /\ DgHasFreeSlot
    /\ isConnecting' = DgSet(TRUE, isConnecting)
    /\ AudioCommit([Close(dgReady, socketRef) EXCEPT ![n] = "CONNECTING"], dgOpened, n, n)

\* connect() returns at once, whatever the socket
ReturnsAlways(connecting) == TRUE
\* connect() returns at once when the isConnecting of its render is set
ReturnsEarly(connecting) == connecting

\* the consumer calls the connect of the latest render
DgConnect ==
    /\ dgMounted
    /\ IF ReturnsEarly(rIsConnecting)
       THEN UNCHANGED <<isConnecting, socketVars>>
       ELSE ConnectBody
    /\ DgObs("connect", <<>>)
    /\ UNCHANGED <<dgMounted, isRecording, dgIsConnected, error, recentAction, readers,
                   recorderVars, messageVars, startVars, renderVars>>

\* the pending startRecording awaits the promise of the connect() that made s
StartAwaits(s) == startPc = "waitConnect" /\ startSock = s

\* the open event of socket s: socket.onopen; resolve(true) resumes the
\* startRecording that awaits it up to its 1 s delay
DgSocketOpen(s) ==
    /\ dgReady[s] = "CONNECTING"
    /\ dgIsConnected' = DgSet(TRUE, dgIsConnected)
    /\ error' = DgSet("", error)
    /\ isConnecting' = DgSet(FALSE, isConnecting)
    /\ AudioCommit([dgReady EXCEPT ![s] = "OPEN"], dgOpened \cup {s}, socketRef,
                   connectionTimeoutRef)
    /\ IF StartAwaits(s)
       THEN startPc' = "wait1000" /\ startSock' = Null
       ELSE UNCHANGED <<startPc, startSock>>
    /\ DgObs("open", <<Wire("init", TRUE)>>)
    /\ UNCHANGED <<dgMounted, isRecording, recentAction, readers, recorderVars, messageVars,
                   startConnecting, renderVars>>

\* the connection of socket s ends: socket.onerror when it failed, then
\* socket.onclose; resolve(false) makes the startRecording that awaits it
\* report the failure and return
DgSocketClose(s, abnormal) ==
    LET failed == s \notin dgOpened \/ abnormal IN
    /\ dgReady[s] \in {"CONNECTING", "OPEN", "CLOSING"}
    /\ s \notin dgOpened => abnormal
    /\ dgIsConnected' = DgSet(FALSE, dgIsConnected)
    /\ isConnecting' = DgSet(FALSE, isConnecting)
    /\ error' = IF StartAwaits(s) THEN DgSet(ErrNoConnection, error)
                ELSE IF failed THEN DgSet(ErrConnection, error)
                ELSE error
    /\ AudioCommit([dgReady EXCEPT ![s] = "CLOSED"], dgOpened, socketRef,
                   connectionTimeoutRef)
    /\ IF StartAwaits(s)
       THEN startPc' = "idle" /\ startSock' = Null
       ELSE UNCHANGED <<startPc, startSock>>
    /\ DgObs("close", <<>>)
    /\ UNCHANGED <<dgMounted, isRecording, recentAction, readers, recorderVars, messageVars,
                   startConnecting, renderVars>>

\* the 5 s connection timeout armed by connect() for socket s fires
DgConnectionTimeout(s) ==
    /\ connectionTimeoutRef = s
    /\ IF dgReady[s] # "OPEN"
       THEN /\ dgIsConnected' = DgSet(FALSE, dgIsConnected)
            /\ isConnecting' = DgSet(FALSE, isConnecting)
            /\ error' = IF StartAwaits(s) THEN DgSet(ErrNoConnection, error)
                        ELSE DgSet(ErrTimeout, error)
            /\ AudioCommit(Close(dgReady, s), dgOpened, socketRef, Stale)
            /\ IF StartAwaits(s)
               THEN startPc' = "idle" /\ startSock' = Null
               ELSE UNCHANGED <<startPc, startSock>>
       ELSE /\ AudioCommit(dgReady, dgOpened, socketRef, Stale)
            /\ UNCHANGED <<dgIsConnected, isConnecting, error, startPc, startSock>>
    /\ DgObs("connTimeout", <<>>)
    /\ UNCHANGED <<dgMounted, isRecording, recentAction, readers, recorderVars, messageVars,
                   startConnecting, renderVars>>

\* a text frame arrives on socket s: socket.onmessage, with the onTranscript
\* and onConcepts of AudioRecorder
DgMessage(s, frame) ==
    LET final == frame.is_final
        append == frame.valid /\ frame.hasTranscript
                  /\ AppendsToHistory(frame.transcript, final)
        counted == frame.valid /\ frame.hasTranscript /\ dgMounted
    IN
    /\ dgReady[s] = "OPEN"
    /\ frame \in ServerFrames
    /\ counted => WithinHistory(utterances, final)
    /\ IF ~frame.valid
       THEN UNCHANGED <<sessionId, transcript, concepts, currentConcept, transcriptHistory,
                        conceptList, error>>
       ELSE /\ sessionId' = IF frame.status = "connected" /\ frame.session_id # ""
                            THEN DgSet(frame.session_id, sessionId) ELSE sessionId
            /\ transcript' = IF frame.hasTranscript /\ final /\ frame.full_transcript # ""
                             THEN DgSet(frame.full_transcript, transcript) ELSE transcript
            /\ transcriptHistory' = IF append
                                    THEN DgSet(Append(transcriptHistory, frame.transcript),
                                               transcriptHistory)
                                    ELSE transcriptHistory
            /\ concepts' = IF frame.hasConcepts THEN DgSet(<<"c1">>, concepts) ELSE concepts
            /\ conceptList' = IF frame.hasConcepts THEN DgSet(<<"c1">>, conceptList)
                              ELSE conceptList
            /\ currentConcept' = IF frame.current_concept # ""
                                 THEN DgSet(frame.current_concept, currentConcept)
                                 ELSE currentConcept
            /\ error' = IF frame.status = "error" THEN DgSet(frame.message, error) ELSE error
    /\ utterances' = IF counted THEN Heard(utterances, frame.transcript, final)
                      ELSE utterances
    /\ DgObs("message", <<>>)
    /\ UNCHANGED <<dgMounted, isRecording, dgIsConnected, isConnecting, recentAction, readers,
                   socketVars, recorderVars, startVars, renderVars>>

\* stopRecording() on the recorders rec with final events pf: debounced when
\* recent, else it stops the current recorder, releases the microphone and
\* clears isRecording
StopRecordingBody(recent, rec, pf) ==
    LET stops == mediaRecorderRef \in Recorders /\ rec[mediaRecorderRef] = "recording" IN
    /\ recentAction' = TRUE
    /\ IF recent
       THEN /\ RecCommit(rec, pf, tracksLive, mediaRecorderRef, streamRef)
            /\ UNCHANGED isRecording
       ELSE /\ RecCommit(IF stops THEN [rec EXCEPT ![mediaRecorderRef] = "inactive"] ELSE rec,
                         IF stops THEN pf \cup {mediaRecorderRef} ELSE pf,
                         tracksLive \ {streamRef}, mediaRecorderRef, Null)
            /\ isRecording' = DgSet(FALSE, isRecording)

\* the consumer calls stopRecording
DgStopRecording ==
    /\ dgMounted
    /\ StopRecordingBody(recentAction, recState, pendingFinal)
    /\ DgObs("stopRecording", <<>>)
    /\ UNCHANGED <<dgMounted, dgIsConnected, error, isConnecting, readers, socketVars,
                   messageVars, startVars, renderVars>>

\* mediaRecorder.onerror of recorder k, which the error has stopped
DgRecorderError(k) ==
    /\ recState[k] = "recording"
    /\ StopRecordingBody(recentAction, [recState EXCEPT ![k] = "inactive"],
                         pendingFinal \cup {k})
    /\ DgObs("recorderError", <<>>)
    /\ UNCHANGED <<dgMounted, dgIsConnected, error, isConnecting, readers, socketVars,
                   messageVars, startVars, renderVars>>

\* disconnect()
DisconnectBody ==
    /\ AudioCommit(Close(dgReady, socketRef), dgOpened, Null, Null)
    /\ StopRecordingBody(recentAction, recState, pendingFinal)
    /\ dgIsConnected' = DgSet(FALSE, dgIsConnected)
    /\ sessionId' = DgSet("", sessionId)
    /\ isConnecting' = DgSet(FALSE, isConnecting)

\* the consumer calls disconnect
DgDisconnect ==
    /\ dgMounted
    /\ DisconnectBody
    /\ DgObs("disconnect", <<>>)
    /\ UNCHANGED <<dgMounted, error, readers, transcript, concepts, currentConcept,
                   transcriptHistory, conceptList, utterances, startVars, renderVars>>

\* the component unmounts: the effect cleanup calls disconnect
DgUnmount ==
    /\ dgMounted
    /\ dgMounted' = FALSE
    /\ DisconnectBody
    /\ DgObs("unmount", <<>>)
    /\ UNCHANGED <<error, readers, transcript, concepts, currentConcept, transcriptHistory,
                   conceptList, utterances, startVars, renderVars>>

\* startRecording from "Ensure we have a WebSocket connection" up to its
\* next await; cConnecting is the isConnecting its connect captured
StartConnectPhase(cConnecting) ==
    IF ~DgIsOpen(socketRef)
    THEN /\ isRecording' = DgSet(FALSE, isRecording)
         /\ IF ReturnsEarly(cConnecting)
            THEN /\ error' = DgSet(ErrNoConnection, error)
                 /\ startPc' = "idle"
                 /\ startSock' = Null
                 /\ UNCHANGED <<isConnecting, socketVars>>
            ELSE /\ ConnectBody
                 /\ startPc' = "waitConnect"
                 /\ startSock' = DgFreeSlot
                 /\ UNCHANGED error
    ELSE /\ startPc' = "waitMedia"
         /\ UNCHANGED <<isRecording, error, isConnecting, socketVars, startSock>>

\* the consumer calls the startRecording of the latest render while no
\* earlier call is suspended
DgStartRecording ==
    /\ dgMounted
    /\ startPc = "idle"
    /\ IF recentAction
       THEN UNCHANGED <<recentAction, isRecording, error, isConnecting, socketVars,
                        startVars, recorderVars>>
       ELSE IF rIsRecording
       THEN /\ StopRecordingBody(TRUE, recState, pendingFinal)
            /\ startPc' = "wait300"
            /\ startConnecting' = rIsConnecting
            /\ UNCHANGED <<error, isConnecting, socketVars, startSock>>
       ELSE /\ recentAction' = TRUE
            /\ StartConnectPhase(rIsConnecting)
            /\ UNCHANGED <<startConnecting, recorderVars>>
    /\ DgObs("startRecording", <<>>)
    /\ UNCHANGED <<dgMounted, dgIsConnected, readers, messageVars, renderVars>>

\* the 300 ms delay of the pending startRecording ends
DgAfter300 ==
    /\ startPc = "wait300"
    /\ StartConnectPhase(startConnecting)
    /\ DgObs("after300", <<>>)
    /\ UNCHANGED <<dgMounted, dgIsConnected, recentAction, readers, recorderVars,
                   messageVars, startConnecting, renderVars>>

\* the 1 s delay of the pending startRecording ends
DgAfter1000 ==
    /\ startPc = "wait1000"
    /\ IF ~DgIsOpen(socketRef)
       THEN error' = DgSet(ErrNotReady, error) /\ startPc' = "idle"
       ELSE error' = error /\ startPc' = "waitMedia"
    /\ DgObs("after1000", <<>>)
    /\ UNCHANGED <<dgMounted, isRecording, dgIsConnected, isConnecting, recentAction, readers,
                   socketVars, recorderVars, messageVars, startSock, startConnecting,
                   renderVars>>

\* getUserMedia resolves: the recorder is created and started
DgMediaGranted ==
    LET k == RecFreeSlot IN
    /\ startPc = "waitMedia"
    /\ RecHasFreeSlot
    /\ RecCommit([recState EXCEPT ![k] = "recording"], pendingFinal, tracksLive \cup {k}, k, k)
    /\ isRecording' = DgSet(TRUE, isRecording)
    /\ error' = DgSet("", error)
    /\ startPc' = "idle"
    /\ DgObs("mediaGranted", <<>>)
    /\ UNCHANGED <<dgMounted, dgIsConnected, isConnecting, recentAction, readers, socketVars,
                   messageVars, startSock, startConnecting, renderVars>>

\* getUserMedia rejects: the catch block of startRecording
DgMediaDenied ==
    /\ startPc = "waitMedia"
    /\ error' = DgSet(ErrMicrophone, error)
    /\ isRecording' = DgSet(FALSE, isRecording)
    /\ startPc' = "idle"
    /\ DgObs("mediaDenied", <<>>)
    /\ UNCHANGED <<dgMounted, dgIsConnected, isConnecting, recentAction, readers, socketVars,
                   recorderVars, messageVars, startSock, startConnecting, renderVars>>

\* recorder k delivers a blob (every 250 ms while recording, once more after
\* stop): mediaRecorder.ondataavailable
DgDataAvailable(k, nonEmpty) ==
    /\ recState[k] = "recording" \/ k \in pendingFinal
    /\ RecCommit(recState, pendingFinal \ {k}, tracksLive, mediaRecorderRef, streamRef)
    /\ IF ForwardsFrame(nonEmpty, socketRef)
       THEN /\ Len(readers) < MaxInFlight
            /\ readers' = Append(readers, [open |-> DgIsOpen(socketRef)])
       ELSE UNCHANGED readers
    /\ DgObs(IF nonEmpty THEN "dataAvailable" ELSE "emptyData", <<>>)
    /\ UNCHANGED <<dgMounted, isRecording, dgIsConnected, error, isConnecting, recentAction,
                   socketVars, messageVars, startVars, renderVars>>

\* the i-th read in flight completes: reader.onloadend
DgReaderDone(i) ==
    /\ i \in 1..Len(readers)
    /\ readers' = [j \in 1..(Len(readers) - 1) |-> IF j < i THEN readers[j] ELSE readers[j + 1]]
    /\ DgObs("readerDone",
             IF DgIsOpen(socketRef) THEN <<Wire("audio", readers[i].open)>> ELSE <<>>)
    /\ UNCHANGED <<dgMounted, isRecording, dgIsConnected, error, isConnecting, recentAction,
                   socketVars, recorderVars, messageVars, startVars, renderVars>>

\* the consumer calls processTranscript
DgProcessTranscript ==
    /\ dgMounted
    /\ DgObs("processTranscript",
             IF DgIsOpen(socketRef) THEN <<Wire("transcript", TRUE)>> ELSE <<>>)
    /\ UNCHANGED <<dgMounted, isRecording, dgIsConnected, error, isConnecting, recentAction,
                   readers, socketVars, recorderVars, messageVars, startVars, renderVars>>

\* React re-renders: connect and startRecording are re-created with the
\* current isConnecting and isRecording
DgRender ==
    /\ dgMounted
    /\ rIsConnecting # isConnecting \/ rIsRecording # isRecording
    /\ rIsConnecting' = isConnecting
    /\ rIsRecording' = isRecording
    /\ DgObs("render", <<>>)
    /\ UNCHANGED <<dgMounted, isRecording, dgIsConnected, error, isConnecting, recentAction,
                   readers, socketVars, recorderVars, messageVars, startVars>>

\* DEBOUNCE_TIME has passed since the last start or stop
DebounceElapses ==
    /\ recentAction
    /\ recentAction' = FALSE
    /\ DgObs("debounceElapses", <<>>)
    /\ UNCHANGED <<dgMounted, isRecording, dgIsConnected, error, isConnecting, readers,
                   socketVars, recorderVars, messageVars, startVars, renderVars>>

NextAudio ==
    \/ DgConnect /\ FlagIdle
    \/ DgDisconnect /\ FlagIdle
    \/ DgUnmount /\ FlagIdle
    \/ DgStartRecording /\ FlagIdle
    \/ DgStopRecording /\ FlagIdle
    \/ DgProcessTranscript /\ FlagIdle
    \/ DgRender /\ FlagIdle
    \/ DebounceElapses /\ FlagIdle
    \/ DgAfter300 /\ FlagIdle
    \/ DgAfter1000 /\ FlagIdle
    \/ DgMediaGranted /\ FlagIdle
    \/ DgMediaDenied /\ FlagIdle
    \/ \E s \in Sockets : DgSocketOpen(s) /\ FlagIdle
    \/ \E s \in Sockets, abnormal \in BOOLEAN : DgSocketClose(s, abnormal) /\ FlagIdle
    \/ \E s \in Sockets : DgConnectionTimeout(s) /\ FlagIdle
    \/ \E s \in Sockets, frame \in DgFrames : DgMessage(s, frame) /\ FlagIdle
    \/ \E k \in Recorders, nonEmpty \in BOOLEAN : DgDataAvailable(k, nonEmpty) /\ FlagIdle
    \/ \E k \in Recorders : DgRecorderError(k) /\ FlagIdle
    \/ \E i \in 1..MaxInFlight : DgReaderDone(i) /\ FlagIdle

\* ------------------------------------------------- AudioToTextRecorder.tsx
ComponentInit ==
    /\ recording = FALSE
    /\ shownTranscript = <<>>
    /\ wsRef = Null
    /\ recorderRef = Null
    /\ startPending = FALSE
    /\ startRejected = FALSE
    /\ wsState = [s \in Sockets |-> "NONE"]
    /\ recOf = [s \in Sockets |-> "NONE"]
    /\ lastBlob = {}
    /\ buffers = <<>>
    /\ captured = 0
    /\ sendLog = <<>>

\* the frames the component captures in one run
Frames250 == 1..MaxFrames

\* the sockets the component may hold alive
WsSlots == {s \in Sockets : s <= MaxObservedSockets}

\* The next values of the sockets, the recorders and the references to them.
\* A CLOSED socket whose recorder is not recording, with no event and no
\* buffer to come, is garbage; a reference to a CLOSING or CLOSED socket is
\* kept as Dead, a reference to an inactive recorder as DeadRec.
ComponentCommit(ws, rc, lb, bufs, wref, rref) ==
    LET bound == {bufs[i].ws : i \in 1..Len(bufs)}
        dead == {s \in Sockets : ws[s] = "CLOSED" /\ rc[s] # "recording" /\ s \notin lb
                                 /\ s \notin bound}
    IN
    /\ wsState' = [s \in Sockets |-> IF s \in dead THEN "NONE" ELSE ws[s]]
    /\ recOf' = [s \in Sockets |-> IF s \in dead THEN "NONE" ELSE rc[s]]
    /\ lastBlob' = lb
    /\ buffers' = bufs
    /\ wsRef' = IF wref \in Sockets /\ ws[wref] \notin {"CONNECTING", "OPEN"} THEN Dead ELSE wref
    /\ recorderRef' = IF rref \in Sockets /\ rc[rref] # "recording" THEN DeadRec ELSE rref

\* mediaRecorderRef.current?.stop() on the recorders rc: a recording recorder
\* becomes inactive and owes its last blob
StopsRecorder(rc, rref) == rref \in Sockets /\ rc[rref] = "recording"
AfterStop(rc, rref) == IF StopsRecorder(rc, rref) THEN [rc EXCEPT ![rref] = "inactive"] ELSE rc
BlobsAfterStop(rc, lb, rref) == IF StopsRecorder(rc, rref) THEN lb \cup {rref} ELSE lb

\* the Start button: startRecording up to its await (one start in flight at a
\* time)
CStartRecording ==
    /\ ~recording
    /\ ~startPending
    /\ shownTranscript' = <<>>
    /\ startPending' = TRUE
    /\ startRejected' = FALSE
    /\ UNCHANGED <<recording, wsRef, recorderRef, wsState, recOf, lastBlob, buffers, captured,
                   sendLog>>

\* getUserMedia resolves: the socket is constructed
CMediaGranted ==
    /\ startPending
    /\ \E n \in WsSlots :
           /\ wsState[n] = "NONE"
           /\ \A t \in WsSlots : t < n => wsState[t] # "NONE"
           /\ ComponentCommit([wsState EXCEPT ![n] = "CONNECTING"], recOf, lastBlob, buffers,
                              n, recorderRef)
    /\ startPending' = FALSE
    /\ UNCHANGED startRejected
    /\ UNCHANGED <<recording, shownTranscript, captured, sendLog>>

\* getUserMedia rejects: startRecording ends with the rejection
CMediaDenied ==
    /\ startPending
    /\ startPending' = FALSE
    /\ startRejected' = TRUE
    /\ UNCHANGED <<recording, shownTranscript, wsRef, recorderRef, wsState, recOf, lastBlob,
                   buffers, captured, sendLog>>

\* ws.onopen of socket s: the recorder is created and started
CSocketOpen(s) ==
    /\ wsState[s] = "CONNECTING"
    /\ recording' = TRUE
    /\ ComponentCommit([wsState EXCEPT ![s] = "OPEN"], [recOf EXCEPT ![s] = "recording"],
                       lastBlob, buffers, wsRef, s)
    /\ UNCHANGED <<shownTranscript, startPending, startRejected, captured, sendLog>>

\* the recorder of socket s delivers a blob: mediaRecorder.ondataavailable
CDataAvailable(s, nonEmpty) ==
    /\ recOf[s] = "recording" \/ s \in lastBlob
    /\ IF nonEmpty /\ wsState[s] = "OPEN"
       THEN /\ captured < MaxFrames
            /\ captured' = captured + 1
            /\ ComponentCommit(wsState, recOf, lastBlob \ {s},
                               Append(buffers, [ws |-> s, seq |-> captured + 1]),
                               wsRef, recorderRef)
       ELSE /\ ComponentCommit(wsState, recOf, lastBlob \ {s}, buffers, wsRef, recorderRef)
            /\ UNCHANGED captured
    /\ UNCHANGED <<recording, shownTranscript, startPending, startRejected, sendLog>>

\* the i-th conversion in flight completes: ws.send(buffer)
CBufferReady(i) ==
    /\ i \in 1..Len(buffers)
    /\ sendLog' = Append(sendLog, [seq |-> buffers[i].seq, ready |-> wsState[buffers[i].ws]])
    /\ ComponentCommit(wsState, recOf, lastBlob,
                       [j \in 1..(Len(buffers) - 1) |->
                            IF j < i THEN buffers[j] ELSE buffers[j + 1]],
                       wsRef, recorderRef)
    /\ UNCHANGED <<recording, shownTranscript, startPending, startRejected, captured>>

\* the Stop button: stopRecording; stop() on an inactive recorder throws
\* before setRecording(false)
CStopRecording ==
    /\ recording
    /\ ComponentCommit(Close(wsState, wsRef), AfterStop(recOf, recorderRef),
                       BlobsAfterStop(recOf, lastBlob, recorderRef), buffers, wsRef,
                       recorderRef)
    /\ recording' = (recorderRef = DeadRec)
    /\ UNCHANGED <<shownTranscript, startPending, startRejected, captured, sendLog>>

\* the connection of socket s ends: ws.onclose
CSocketClose(s) ==
    /\ wsState[s] \in {"CONNECTING", "OPEN", "CLOSING"}
    /\ recording' = FALSE
    /\ ComponentCommit([wsState EXCEPT ![s] = "CLOSED"], AfterStop(recOf, recorderRef),
                       BlobsAfterStop(recOf, lastBlob, recorderRef), buffers, wsRef,
                       recorderRef)
    /\ UNCHANGED <<shownTranscript, startPending, startRejected, captured, sendLog>>

\* handleTranscriptMessage: the text of the message is added to the end of the
\* displayed text, whatever is_final says.  The displayed text is kept as its
\* pieces, each with the is_final of the message it came from.
HandleTranscriptMessage(prev, frame) ==
    Append(prev, [text |-> frame.transcript, final |-> frame.is_final])

\* a text frame arrives on socket s: ws.onmessage
CMessage(s, frame) ==
    /\ wsState[s] = "OPEN"
    /\ frame \in ControlFrames \cup {f \in DgFrames : f.hasTranscript /\ ~f.hasConcepts}
    /\ Len(shownTranscript) < MaxHistory + MaxPartials \/ ~(frame.valid /\ frame.hasTranscript)
    /\ shownTranscript' = IF frame.valid /\ frame.hasTranscript /\ frame.transcript # ""
                          THEN HandleTranscriptMessage(shownTranscript, frame)
                          ELSE shownTranscript
    /\ UNCHANGED <<recording, wsRef, recorderRef, startPending, startRejected, wsState, recOf, lastBlob,
                   buffers, captured, sendLog>>

NextComponent ==
    \/ CStartRecording /\ HooksIdle
    \/ CMediaGranted /\ HooksIdle
    \/ CMediaDenied /\ HooksIdle
    \/ CStopRecording /\ HooksIdle
    \/ \E s \in Sockets : CSocketOpen(s) /\ HooksIdle
    \/ \E s \in Sockets : CSocketClose(s) /\ HooksIdle
    \/ \E s \in Sockets, nonEmpty \in BOOLEAN : CDataAvailable(s, nonEmpty) /\ HooksIdle
    \/ \E i \in Frames250 : CBufferReady(i) /\ HooksIdle
    \/ \E s \in Sockets, frame \in DgFrames : CMessage(s, frame) /\ HooksIdle

\* the recorder component; both hooks idle
InitComponent == ComponentInit /\ FlagInit /\ AudioInit /\ watch = "frames" /\ ~authToken
                 /\ BackoffIdle
SpecComponent == InitComponent /\ [][NextComponent]_vars

\* the hook of a signed-in user, with the input and the effects of the latest
\* task on record
InitFlag == FlagInit /\ AudioInit /\ watch = "tasks" /\ authToken /\ BackoffIdle /\ ComponentInit
SpecFlag == InitFlag /\ [][NextFlag]_vars

\* the hook with the history of its reconnect policy on record
InitReconnect == FlagInit /\ AudioInit /\ watch = "reconnects" /\ authToken /\ BackoffIdle /\ ComponentInit
SpecReconnect == InitReconnect /\ [][NextFlag]_vars

\* the close event of a socket on which close() has been called
ClosingEnds(s) == readyState[s] = "CLOSING" /\ \E abnormal \in BOOLEAN : SocketClose(s, abnormal)

\* The same hook with the scheduling of the browser: an armed timer fires, the
\* close event of a closing socket is delivered, React renders a state change
\* and flushes a queued effect.  Nothing obliges the consumer to call the hook
\* or the server to answer.
SpecFlagFair ==
    /\ SpecFlag
    /\ \A s \in Sockets : WF_vars(ReconnectTimerFires(s) /\ OthersUnused)
    /\ \A s \in Sockets : WF_vars(ConnectionTimeoutFires(s) /\ OthersUnused)
    /\ \A s \in Sockets : WF_vars(ClosingEnds(s) /\ OthersUnused)
    /\ WF_vars(Render /\ OthersUnused)
    /\ WF_vars(RunEffect /\ OthersUnused)

\* the audio hook receiving control frames only; the concept-flag hook idles
InitAudio == AudioInit /\ FlagInit /\ watch = "audio" /\ ~authToken /\ BackoffIdle /\ ComponentInit
SpecAudio == InitAudio /\ [][NextAudio]_vars

\* the audio hook of a consumer that never starts the microphone, receiving
\* every kind of frame
NextTranscript ==
    \/ DgConnect /\ FlagIdle
    \/ DgDisconnect /\ FlagIdle
    \/ DgUnmount /\ FlagIdle
    \/ DgProcessTranscript /\ FlagIdle
    \/ DgRender /\ FlagIdle
    \/ \E s \in Sockets : DgSocketOpen(s) /\ FlagIdle
    \/ \E s \in Sockets, abnormal \in BOOLEAN : DgSocketClose(s, abnormal) /\ FlagIdle
    \/ \E s \in Sockets : DgConnectionTimeout(s) /\ FlagIdle
    \/ \E s \in Sockets, frame \in DgFrames : DgMessage(s, frame) /\ FlagIdle
InitTranscript == AudioInit /\ FlagInit /\ watch = "transcripts" /\ ~authToken /\ BackoffIdle /\ ComponentInit
SpecTranscript == InitTranscript /\ [][NextTranscript]_vars

\* the close event of a socket on which close() has been called
DgClosingEnds(s) == dgReady[s] = "CLOSING" /\ \E abnormal \in BOOLEAN : DgSocketClose(s, abnormal)

\* The same hook with the scheduling of the browser: an armed timer fires, the
\* close event of a closing socket is delivered, React renders a state change.
\* Nothing obliges the consumer to call the hook or the server to answer.
SpecConnectionFair ==
    /\ SpecTranscript
    /\ \A s \in Sockets : WF_vars(DgConnectionTimeout(s) /\ FlagIdle)
    /\ \A s \in Sockets : WF_vars(DgClosingEnds(s) /\ FlagIdle)
    /\ WF_vars(DgRender /\ FlagIdle)

\* the audio hook of a consumer that connects and disconnects at will, with
\* no frame received
NextConnect ==
    \/ DgConnect /\ FlagIdle
    \/ DgDisconnect /\ FlagIdle
    \/ DgUnmount /\ FlagIdle
    \/ DgRender /\ FlagIdle
    \/ \E s \in Sockets : DgSocketOpen(s) /\ FlagIdle
    \/ \E s \in Sockets, abnormal \in BOOLEAN : DgSocketClose(s, abnormal) /\ FlagIdle
    \/ \E s \in Sockets : DgConnectionTimeout(s) /\ FlagIdle
InitConnect == AudioInit /\ FlagInit /\ watch = "connects" /\ ~authToken /\ BackoffIdle /\ ComponentInit
SpecConnect == InitConnect /\ [][NextConnect]_vars

\* the backoff formula on its own; both hooks idle
NextBackoff == ComputeDelays /\ FlagUnused /\ AudioUnused /\ ComponentUnused
InitBackoff == BackoffInit /\ FlagInit /\ AudioInit /\ watch = "backoff" /\ ~authToken /\ ComponentInit
SpecBackoff == InitBackoff /\ [][NextBackoff]_vars

\* ------------------------------------------------------------------ claims
LiveSockets == {s \in Sockets : readyState[s] \in {"CONNECTING", "OPEN"}}

\* C1: once the hook's cleanup has run on unmount (it closed the captured
\* socket and cleared the reconnect timer), no WebSocket is constructed any
\* more, whatever close events and timers follow.
C1_NoResurrectedReconnect == ~createdAfterTeardown

\* C2 (Scenario B): after an open connection closes and while no connection
\* opens again, the k-th reconnect timer is armed with delay 1000 * 2^(k-1),
\* k = 1..5, no sixth timer is armed, and the fatal error is reported at
\* most once.
C2_ScenarioB ==
    openedOnce =>
        /\ schedCount <= maxReconnectAttempts
        /\ schedCount >= 1 => lastDelay = BaseDelay * Pow2(schedCount - 1)
        /\ nFatal <= 1

\* C3: the delay computed for an attempt is at most 30000 ms, and it is not
\* smaller than the delay of the attempt before it.
C3_BackoffBoundedMonotone ==
    computed =>
        /\ delay <= MaxDelay
        /\ (attempt >= 1 /\ earlier = attempt - 1) => delay >= earlierDelay

\* C3 witness: attempt 5 is the first whose delay is cut to the ceiling.
C3_Witness ==
    /\ computed
    /\ attempt = 5 /\ earlier = 4
    /\ delay = MaxDelay /\ earlierDelay = 16 * BaseDelay

\* C4: a flagConcept call made while a request is pending (isLoading) puts
\* nothing on the wire and is rejected through the error callback.
C4_AlreadyPending ==
    (lastOp = "flagConcept" /\ preLoading) =>
        /\ sent = <<>>
        /\ Len(cbs) = 1 /\ cbs[1][1] = "onError"

\* C5: an explanation message that arrives while no request is pending
\* invokes no callback and leaves isLoading unchanged.
C5_UnsolicitedExplanationDiscarded ==
    (/\ lastOp = "message"
     /\ lastArg.frame.valid
     /\ lastArg.frame.status # "error"
     /\ ~preLoading) =>
        /\ cbs = <<>>
        /\ isLoading = preLoading

\* C6: every read in flight is of a blob captured while the socket was OPEN
\* (a blob captured during an outage is not kept), and an audio message is
\* sent only while the socket is OPEN and only for such a blob.
C6_NoAudioDuringOutage ==
    /\ \A i \in 1..Len(readers) : readers[i].open
    /\ \A i \in 1..Len(dgSent) :
           dgSent[i].kind = "audio" => dgSent[i].open /\ DgIsOpen(socketRef)

\* C6 witness: the recorder delivered a non-empty blob while the socket that
\* had been open was gone; nothing was read and nothing was sent.
C6_Witness ==
    /\ dgLastOp = "dataAvailable"
    /\ socketRef = Dead
    /\ readers = <<>>
    /\ dgSent = <<>>

\* the texts of the completed utterances, in order
FinalTexts ==
    LET done == SelectSeq(utterances, LAMBDA u : u.final)
    IN [i \in 1..Len(done) |-> done[i].text]

\* C7 as stated (Scenario A): every completed utterance, however many partial
\* messages it had, has exactly one entry in the history of finalized
\* transcripts, equal to its final text.
C7_ScenarioA == transcriptHistory = FinalTexts

\* C7 amended: the same for the utterances whose final text is not empty; an
\* utterance whose final text is empty has no entry.
C7_ScenarioA_NonEmptyFinals ==
    transcriptHistory = SelectSeq(FinalTexts, LAMBDA t : t # "")

\* C7 witness: a partial message and the final message of one utterance
\* have been handled.
C7_Witness ==
    /\ Len(utterances) = 1
    /\ utterances[1].final /\ utterances[1].partials = 1 /\ utterances[1].text = "hello"
    /\ transcriptHistory = <<"hello">>

\* the latest task handled an error reply to a pending request on the socket
\* the component holds
ErrorReply ==
    /\ lastOp = "message"
    /\ mounted
    /\ preLoading
    /\ lastArg.s = renderedWs
    /\ lastArg.frame.valid
    /\ lastArg.frame.status = "error"

\* C8 as stated (Scenario C): an error reply with message m invokes the error
\* callback once with m and nothing else, clears isLoading and leaves the
\* socket OPEN, so that the next flagConcept sends.
C8_ScenarioC ==
    ErrorReply =>
        /\ cbs = <<<<"onError", lastArg.frame.message>>>>
        /\ ~isLoading
        /\ IsOpen(renderedWs)

\* C8 amended: the same, the callback receiving "Unknown error" when m is
\* empty.
C8_ScenarioC_UnknownError ==
    ErrorReply =>
        /\ cbs = <<<<"onError", IF lastArg.frame.message = "" THEN "Unknown error"
                                ELSE lastArg.frame.message>>>>
        /\ ~isLoading
        /\ IsOpen(renderedWs)

\* C8 witness: the reply {status: "error", message: "boom"} to a pending
\* request has been handled.
C8_Witness ==
    /\ ErrorReply
    /\ lastArg.frame.message = "boom"
    /\ cbs = <<<<"onError", "boom">>>>
    /\ ~isLoading

\* C9: a flagConcept call made while the socket the component holds is absent
\* or not OPEN invokes the error callback with the not-connected error, sends
\* nothing and leaves isLoading as it was; and no other task ever sends a
\* request.
C9_NotConnected ==
    /\ (lastOp = "flagConcept" /\ ~preOpen) =>
           /\ cbs = <<CbNotConnected>>
           /\ sent = <<>>
           /\ isLoading = preLoading
    /\ lastOp # "flagConcept" => \A i \in 1..Len(sent) : sent[i] \notin Concepts

\* C9 witness: flagConcept was called while the socket was still CONNECTING.
C9_Witness ==
    /\ lastOp = "flagConcept"
    /\ ~preOpen
    /\ renderedWs \in Sockets /\ readyState[renderedWs] = "CONNECTING"
    /\ cbs = <<CbNotConnected>>

\* C10: at most one socket of the hook is CONNECTING or OPEN at any moment.
C10_SingleTransport == Cardinality(LiveSockets) <= 1

\* C11: once the hook's cleanup has run on unmount, no connection timeout is
\* armed any more and no task invokes the error callback with the timeout
\* error.
C11_NoTimeoutAfterTeardown ==
    ~mounted =>
        /\ connTimer = {}
        /\ \A i \in 1..Len(cbs) : cbs[i] # CbTimeout

\* C12: disconnect() never calls close() on the socket while a recorder is
\* still recording or a microphone track is still live, and when it returns
\* the capture is disarmed.
C12_DisarmBeforeClose ==
    /\ ~closedArmed
    /\ dgLastOp = "disconnect" => ~CaptureArmed(recState, tracksLive)

\* C13: when a stopRecording call returns, whenever it was made, the recorder
\* the hook holds is not recording, the microphone stream is released and
\* isRecording is false.
C13_StopRecordingDisarms ==
    dgLastOp = "stopRecording" =>
        /\ ~(mediaRecorderRef \in Recorders /\ recState[mediaRecorderRef] = "recording")
        /\ streamRef = Null
        /\ tracksLive = {}
        /\ ~isRecording

\* the connection timeout has closed socket s of the audio hook, which never
\* opened
DgTimedOut(s) == dgLastOp = "connTimeout" /\ dgReady[s] = "CLOSING" /\ s \notin dgOpened

\* C14: an attempt that the 5 s connection timeout has closed is followed, as
\* a failed attempt, by a new connection attempt, unless the consumer tears
\* the session down first.
C14_TimeoutLeadsToReconnect ==
    \A s \in Sockets :
        DgTimedOut(s) ~> \/ \E t \in Sockets : dgReady[t] = "CONNECTING"
                         \/ ~dgMounted
                         \/ socketRef = Null

\* C15: a request that is pending (isLoading) eventually stops being pending
\* while the hook is mounted, whether or not the server replies.
C15_PendingEventuallyEnds == isLoading ~> (~isLoading \/ ~mounted)

\* C16: a step that starts a session after disconnect() (the hook held no
\* socket and now holds one) leaves the transcript, the concept list and the
\* current concept empty.
C16_NewSessionStartsEmpty ==
    [][(socketRef = Null /\ socketRef' \in Sockets) =>
           /\ transcript' = ""
           /\ concepts' = <<>>
           /\ currentConcept' = ""]_vars

\* C17: the open event of a socket leaves the reconnect attempt counter at
\* zero, and the close event of a socket that is OPEN finds it at zero, so
\* that the reconnect it schedules is the first of five and is due after
\* BaseDelay.
C17_OpenResetsAttempts ==
    [][\A s \in Sockets :
           /\ (readyState[s] = "CONNECTING" /\ readyState'[s] = "OPEN")
                  => reconnectAttemptsRef' = 0
           /\ (readyState[s] = "OPEN" /\ readyState'[s] \in {"CLOSED", "NONE"})
                  => (reconnectAttemptsRef = 0 /\ s \in reconnTimer')]_vars

\* the state connect() must leave alone when it is a no-op
SessionState == <<dgReady, dgOpened, socketRef, connectionTimeoutRef, isConnecting,
                  dgIsConnected, error, sessionId, isRecording, transcript, concepts,
                  currentConcept>>

C19_SendTimeCheck ==
    \A i \in 1..Len(sendLog) : sendLog[i].ready = "OPEN"

\* C20: frames are sent in the order they were captured: of two frames both
\* sent, the one captured first is sent first.
C20_SentInCaptureOrder ==
    \A i, j \in 1..Len(sendLog) : i < j => sendLog[i].seq < sendLog[j].seq

\* C21: the displayed transcript never accumulates partial hypotheses: no
\* piece of the displayed text comes from a partial (is_final false) message.
C21_NoPartialInTranscript ==
    \A i \in 1..Len(shownTranscript) : shownTranscript[i].final

\* C22: a frame that JSON.parse rejects is dropped: it is reported through
\* the error callback only, the socket stays OPEN and the pending-request
\* state (isLoading) is what it was before the frame.
C22_MalformedFrameDropped ==
    (lastOp = "message" /\ ~JsonParse(lastArg.frame).ok) =>
        /\ cbs = <<CbParseError>>
        /\ readyState[lastArg.s] = "OPEN"
        /\ isLoading = preLoading

\* C23: a capture-device failure during start is not thrown to the caller:
\* no startRecording call ends with a rejected promise.
C23_DeviceFailureNotThrown ==
    ~startRejected

\* C24: the recorder is armed only once the transport is OPEN: no recorder
\* starts recording while the socket of the hook is still CONNECTING.
C24_ArmedOnlyWhenOpen ==
    [][(\E k \in Recorders : recState[k] # "recording" /\ recState'[k] = "recording") =>
         ~(socketRef' \in Sockets /\ dgReady'[socketRef'] = "CONNECTING")]_vars

\* C25: a pending start is cancellable: when stopRecording or disconnect was
\* called while startRecording is suspended, the start that resumes next does
\* not arm a recorder.
C25_PendingStartCancelled ==
    [][(dgLastOp \in {"stopRecording", "disconnect"} /\ startPc # "idle") =>
         \A k \in Recorders : recState'[k] = "recording" => recState[k] = "recording"]_vars

\* C26: mount stabilises: while the hook stays mounted no task closes a
\* transport that is CONNECTING or OPEN and creates another one in its place
\* (storing the new socket in state does not run the connect effect again).
C26_MountStabilises ==
    [][\A t \in Sockets :
          (mounted' /\ readyState[t] \in {"CONNECTING", "OPEN"} /\ readyState'[t] = "CLOSING") =>
              ~\E n \in Sockets : readyState[n] # "CONNECTING" /\ readyState'[n] = "CONNECTING"]_vars

\* C27: at most one reconnect timer is armed at any time, and
\* reconnectTimeoutRef holds it.
C27_OneReconnectTimer ==
    /\ Cardinality(reconnTimer) <= 1
    /\ \A s \in reconnTimer : reconnectTimeoutRef = s

\* C28: the reconnect attempt counter stays within 0..maxReconnectAttempts.
C28_AttemptsBounded ==
    reconnectAttemptsRef \in 0..maxReconnectAttempts

\* C29: events of a replaced transport do not change the state of the
\* current session: while the current socket is OPEN, isConnected is true
\* and isConnecting is false.
C29_StaleEventsIgnored ==
    (dgMounted /\ DgIsOpen(socketRef)) => (dgIsConnected /\ ~isConnecting)

\* C30: the connection timeout reports only an attempt that never opened and
\* has not failed yet: when the timer of a socket fires that has opened, or
\* whose connection has already ended, error and the connection flags stay as
\* they are.
C30_TimeoutOnlyForHangingAttempt ==
    [][(/\ connectionTimeoutRef \in Sockets
        /\ connectionTimeoutRef' = Stale
        /\ \/ connectionTimeoutRef \in dgOpened
           \/ dgReady[connectionTimeoutRef] = "CLOSED") =>
         (error' = error /\ dgIsConnected' = dgIsConnected /\ isConnecting' = isConnecting)]_vars

====
